---- MODULE Spec2Model ----
(***************************************************************************)
(* The http-fetch contract (src/src/lib.rs) as a state machine: the        *)
(* request registry, the staged response bodies, the host's yield/resume   *)
(* primitive the contract calls, and the FetchResults handed back to the   *)
(* suspended fetch callers.                                                *)
(*                                                                         *)
(* Every contract method is one action.  A method that panics leaves the   *)
(* contract state as it was (the host reverts a failed receipt), so each   *)
(* method is an operator from the current state to an outcome record       *)
(* holding the panic, or "Ok" and the state the method wrote.              *)
(*                                                                         *)
(* Spec lets every account make every call; WorkerSpec has two relay       *)
(* workers (src/relayer/src/lib.rs) as the only callers of the relayer's   *)
(* methods, CycleSpec and SoloSpec one worker running alone.               *)
(***************************************************************************)
EXTENDS Integers, Sequences, FiniteSets, TLC

VARIABLES
    trusted_relayer,   \* Contract.trusted_relayer
    next_request_id,   \* Contract.next_request_id
    requests,          \* Contract.requests, in the IterableMap's iteration order
    response_bodies,   \* Contract.response_bodies
    yields,            \* host: the yielded promises created by fetch
    results,           \* the FetchResults returned by on_fetch_complete, in order
    finalized,         \* history: request id -> bytes staged when respond resumed its yield
    inline,            \* history: request id -> inline body of the respond that resumed its yield
    workers,           \* the relay workers: each one's place in run / process_once
    last,              \* history: the last contract call and how it ended
    steps              \* history: the number of calls accounts made that committed

vars == <<trusted_relayer, next_request_id, requests, response_bodies,
          yields, results, finalized, inline, workers, last, steps>>

(***************************************************************************)
(* Bounds.                                                                 *)
(***************************************************************************)
\* Stands for u64::MAX: next_request_id.checked_add(1) fails at this value.
U64Max == 3
\* The number of committed calls (fetch, respond, store_response_chunk) the
\* accounts make in a behaviour; failed calls and the host's callbacks are
\* not counted.
MaxSteps == 3
\* The same number in the short behaviours, in which the claims about single
\* calls and about progress are checked.
MaxShortSteps == 2
\* The same number in the behaviours of the relay workers, whose calls count.
MaxWorkerSteps == 5
\* The number of requests fetch creates in those behaviours.
MaxWorkerFetches == 1
\* The same two numbers in the behaviours of one relay worker running alone,
\* long enough for a cycle to fail, the next to succeed and one more to start.
MaxCycleSteps == 6
MaxCycleFetches == 3

(***************************************************************************)
(* Inputs.                                                                 *)
(***************************************************************************)
RelayerAccount == "relayer"
Accounts == {"relayer", "alice"}

None == [some |-> FALSE, val |-> <<>>]
Some(v) == [some |-> TRUE, val |-> v]

\* (caller, url, context) of the fetch calls
FetchInputs ==
    { [caller |-> "alice", url |-> "https://x/y", context |-> None],
      [caller |-> "relayer", url |-> "https://x/z", context |-> Some(<<7>>)] }

RequestIds == 0 .. (U64Max - 1)

\* data of store_response_chunk and inline bodies of respond
Chunks == { <<>>, <<1>>, <<2>> }
Bodies == {None} \cup { Some(c) : c \in Chunks }

\* A yield id is the 32-byte data id the host writes to the register; the
\* n-th yielded promise gets the n-th id.
YieldId(n) == <<"yield", n>>
\* A 32-byte value the host never issued, and a value that is not 32 bytes
\* (respond's try_into fails on it).
ForgedYieldId == <<"yield", U64Max>>
MalformedYieldId == <<"short">>
YieldIds == { YieldId(n) : n \in RequestIds } \cup {ForgedYieldId, MalformedYieldId}

\* The relay worker instances, all signing as the trusted relayer, and the
\* state of one that enters the loop of run, about to read the registry:
\* pc is its place in run, pending what is left of the snapshot, the request
\* in hand first, bytes and sent the body and the chunks gone through for
\* it; resolved, left, restarted and failed are history.
Workers == {"w1", "w2"}
Idle == [pc |-> "poll", pending |-> <<>>, bytes |-> <<>>, sent |-> 0, resolved |-> {},
         left |-> <<>>, restarted |-> {}, failed |-> {}]

\* relayer CHUNK_SIZE (300_000 bytes), scaled down
CHUNK_SIZE == 2

\* The bodies the HTTP server may answer a GET of the url with.
HttpBodies(url) ==
    IF url = "https://x/y" THEN { <<1, 2, 3>> } ELSE { <<>>, <<1>> }

(***************************************************************************)
(* near_sdk::store::IterableMap<u64, StoredRequest>: a vector of keys      *)
(* (iteration order) over a lookup map; here a sequence of entries.        *)
(***************************************************************************)
MapKeys(m) == { m[i].key : i \in 1 .. Len(m) }

MapIndex(m, k) == CHOOSE i \in 1 .. Len(m) : m[i].key = k

MapGet(m, k) == m[MapIndex(m, k)].value

\* insert: a new key is pushed at the end, an existing key keeps its place
MapInsert(m, k, v) ==
    IF k \in MapKeys(m)
    THEN [m EXCEPT ![MapIndex(m, k)] = [key |-> k, value |-> v]]
    ELSE Append(m, [key |-> k, value |-> v])

\* remove: Vector::swap_remove, the last key takes the removed key's place
MapRemove(m, k) ==
    LET i == MapIndex(m, k)
        n == Len(m)
    IN  IF i = n
        THEN SubSeq(m, 1, n - 1)
        ELSE SubSeq([m EXCEPT ![i] = m[n]], 1, n - 1)

\* response_bodies is never iterated: a function from the keys present
BodyInsert(b, k, v) == [x \in (DOMAIN b) \cup {k} |-> IF x = k THEN v ELSE b[x]]

BodyRemove(b, k) == [x \in (DOMAIN b) \ {k} |-> b[x]]

BodyGet(b, k) == IF k \in DOMAIN b THEN Some(b[k]) ELSE None

(***************************************************************************)
(* The contract's methods.  A panic is an outcome other than "Ok"; the     *)
(* names are the spec's names of the panics:                               *)
(*   Overflow        "Request id overflow"                                 *)
(*   Unauthorized    "Only the trusted relayer can respond"                *)
(*   InvalidYieldId  "Invalid yield id"                                    *)
(*   NotFound        "Unknown request id"                                  *)
(*   TokenMismatch   "Yield id does not match stored request"              *)
(*   NoBody          "No stored body for request"                          *)
(*   MissingRequest  "Missing request for callback"                        *)
(***************************************************************************)
Panic(msg) == [outcome |-> msg]

\* ensure_trusted as it would be if it let every account through
ensure_trusted_any(caller) == caller \in Accounts

\* Contract::ensure_trusted
ensure_trusted(caller) == caller = trusted_relayer

\* fetch as it would be with the counter left where it was
fetch_reuse_id(caller, url, context) ==
    LET request_id == next_request_id
    IN  IF next_request_id = U64Max
        THEN Panic("Overflow")
        ELSE LET yield_id == YieldId(Cardinality(DOMAIN yields))
                 stored == [yield_id |-> yield_id, url |-> url,
                            caller |-> caller, context |-> context]
             IN  [outcome |-> "Ok",
                  request_id |-> request_id,
                  next_request_id |-> next_request_id,
                  yield_id |-> yield_id,
                  requests |-> MapInsert(requests, request_id, stored)]

\* fetch as it would be with the id read after the increment
fetch_id_after_increment(caller, url, context) ==
    LET request_id == next_request_id + 1
    IN  IF next_request_id = U64Max
        THEN Panic("Overflow")
        ELSE LET yield_id == YieldId(Cardinality(DOMAIN yields))
                 stored == [yield_id |-> yield_id, url |-> url,
                            caller |-> caller, context |-> context]
             IN  [outcome |-> "Ok",
                  request_id |-> request_id,
                  next_request_id |-> next_request_id + 1,
                  yield_id |-> yield_id,
                  requests |-> MapInsert(requests, request_id, stored)]

\* fetch as it would be with wrapping_add in place of checked_add
fetch_wrapping_add(caller, url, context) ==
    LET request_id == next_request_id
        yield_id == YieldId(Cardinality(DOMAIN yields))
        stored == [yield_id |-> yield_id, url |-> url,
                   caller |-> caller, context |-> context]
    IN  [outcome |-> "Ok",
         request_id |-> request_id,
         next_request_id |-> (next_request_id + 1) % (U64Max + 1),
         yield_id |-> yield_id,
         requests |-> MapInsert(requests, request_id, stored)]

\* Contract::fetch: the state it writes and the yield it creates
fetch(caller, url, context) ==
    LET request_id == next_request_id
    IN  IF next_request_id = U64Max
        THEN Panic("Overflow")
        ELSE LET yield_id == YieldId(Cardinality(DOMAIN yields))
                 stored == [yield_id |-> yield_id, url |-> url,
                            caller |-> caller, context |-> context]
             IN  [outcome |-> "Ok",
                  request_id |-> request_id,
                  next_request_id |-> next_request_id + 1,
                  yield_id |-> yield_id,
                  requests |-> MapInsert(requests, request_id, stored)]

\* Contract::list_requests
list_requests ==
    [i \in 1 .. Len(requests) |->
        [request_id |-> requests[i].key,
         url |-> requests[i].value.url,
         caller |-> requests[i].value.caller,
         context |-> requests[i].value.context,
         yield_id |-> requests[i].value.yield_id]]

\* respond as it would be without the comparison of the yield ids
respond_no_token_check(caller, request_id, yield_id, body) ==
    IF ~ensure_trusted(caller) THEN Panic("Unauthorized")
    ELSE IF yield_id = MalformedYieldId THEN Panic("InvalidYieldId")
    ELSE IF request_id \notin MapKeys(requests) THEN Panic("NotFound")
    ELSE LET request == MapGet(requests, request_id)
         IN  IF body.some
             THEN [outcome |-> "Ok",
                   response_bodies |-> BodyInsert(response_bodies, request_id, body.val),
                   resume |-> {request.yield_id}]
             ELSE IF ~BodyGet(response_bodies, request_id).some
                  THEN Panic("NoBody")
                  ELSE [outcome |-> "Ok",
                        response_bodies |-> response_bodies,
                        resume |-> {request.yield_id}]

\* respond as it would be with a missing staged body taken as empty
respond_default_body(caller, request_id, yield_id, body) ==
    IF ~ensure_trusted(caller) THEN Panic("Unauthorized")
    ELSE IF yield_id = MalformedYieldId THEN Panic("InvalidYieldId")
    ELSE IF request_id \notin MapKeys(requests) THEN Panic("NotFound")
    ELSE LET request == MapGet(requests, request_id)
         IN  IF request.yield_id # yield_id THEN Panic("TokenMismatch")
             ELSE IF body.some
                  THEN [outcome |-> "Ok",
                        response_bodies |-> BodyInsert(response_bodies, request_id, body.val),
                        resume |-> {request.yield_id}]
                  ELSE [outcome |-> "Ok",
                        response_bodies |->
                            BodyInsert(response_bodies, request_id,
                                       BodyGet(response_bodies, request_id).val),
                        resume |-> {request.yield_id}]

\* respond as it would be if it asked for a staged body that is not empty
respond_requires_nonempty(caller, request_id, yield_id, body) ==
    IF ~ensure_trusted(caller) THEN Panic("Unauthorized")
    ELSE IF yield_id = MalformedYieldId THEN Panic("InvalidYieldId")
    ELSE IF request_id \notin MapKeys(requests) THEN Panic("NotFound")
    ELSE LET request == MapGet(requests, request_id)
         IN  IF request.yield_id # yield_id THEN Panic("TokenMismatch")
             ELSE IF body.some
                  THEN [outcome |-> "Ok",
                        response_bodies |-> BodyInsert(response_bodies, request_id, body.val),
                        resume |-> {request.yield_id}]
                  ELSE IF BodyGet(response_bodies, request_id).val = <<>>
                       THEN Panic("NoBody")
                       ELSE [outcome |-> "Ok",
                             response_bodies |-> response_bodies,
                             resume |-> {request.yield_id}]

\* respond as it would be if it returned early for an unknown request id
respond_unknown_is_noop(caller, request_id, yield_id, body) ==
    IF ~ensure_trusted(caller) THEN Panic("Unauthorized")
    ELSE IF yield_id = MalformedYieldId THEN Panic("InvalidYieldId")
    ELSE IF request_id \notin MapKeys(requests)
         THEN [outcome |-> "Ok", response_bodies |-> response_bodies, resume |-> {}]
    ELSE LET request == MapGet(requests, request_id)
         IN  IF request.yield_id # yield_id THEN Panic("TokenMismatch")
             ELSE IF body.some
                  THEN [outcome |-> "Ok",
                        response_bodies |-> BodyInsert(response_bodies, request_id, body.val),
                        resume |-> {request.yield_id}]
                  ELSE IF ~BodyGet(response_bodies, request_id).some
                       THEN Panic("NoBody")
                       ELSE [outcome |-> "Ok",
                             response_bodies |-> response_bodies,
                             resume |-> {request.yield_id}]

\* respond as it would be without the check that a body is staged
respond_unchecked_body(caller, request_id, yield_id, body) ==
    IF ~ensure_trusted(caller) THEN Panic("Unauthorized")
    ELSE IF yield_id = MalformedYieldId THEN Panic("InvalidYieldId")
    ELSE IF request_id \notin MapKeys(requests) THEN Panic("NotFound")
    ELSE LET request == MapGet(requests, request_id)
         IN  IF request.yield_id # yield_id THEN Panic("TokenMismatch")
             ELSE [outcome |-> "Ok",
                   response_bodies |->
                       IF body.some
                       THEN BodyInsert(response_bodies, request_id, body.val)
                       ELSE response_bodies,
                   resume |-> {request.yield_id}]

\* Contract::respond: the bodies it writes and the yield it resumes
respond(caller, request_id, yield_id, body) ==
    IF ~ensure_trusted(caller) THEN Panic("Unauthorized")
    ELSE IF yield_id = MalformedYieldId THEN Panic("InvalidYieldId")
    ELSE IF request_id \notin MapKeys(requests) THEN Panic("NotFound")
    ELSE LET request == MapGet(requests, request_id)
         IN  IF request.yield_id # yield_id THEN Panic("TokenMismatch")
             ELSE IF body.some
                  THEN [outcome |-> "Ok",
                        response_bodies |-> BodyInsert(response_bodies, request_id, body.val),
                        resume |-> {request.yield_id}]
                  ELSE IF ~BodyGet(response_bodies, request_id).some
                       THEN Panic("NoBody")
                       ELSE [outcome |-> "Ok",
                             response_bodies |-> response_bodies,
                             resume |-> {request.yield_id}]

\* Contract::respond as a later action of a receipt, over the staged bodies
\* the receipt's earlier actions left
respond_after(bodies, caller, request_id, yield_id, body) ==
    IF ~ensure_trusted(caller) THEN Panic("Unauthorized")
    ELSE IF yield_id = MalformedYieldId THEN Panic("InvalidYieldId")
    ELSE IF request_id \notin MapKeys(requests) THEN Panic("NotFound")
    ELSE LET request == MapGet(requests, request_id)
         IN  IF request.yield_id # yield_id THEN Panic("TokenMismatch")
             ELSE IF body.some
                  THEN [outcome |-> "Ok",
                        response_bodies |-> BodyInsert(bodies, request_id, body.val),
                        resume |-> {request.yield_id}]
                  ELSE IF ~BodyGet(bodies, request_id).some
                       THEN Panic("NoBody")
                       ELSE [outcome |-> "Ok",
                             response_bodies |-> bodies,
                             resume |-> {request.yield_id}]

\* store_response_chunk as it would be with the chunk put in front
store_response_chunk_prepend(caller, request_id, data, append) ==
    IF ~ensure_trusted(caller) THEN Panic("Unauthorized")
    ELSE LET current == IF append /\ request_id \in DOMAIN response_bodies
                        THEN response_bodies[request_id]
                        ELSE <<>>
         IN  [outcome |-> "Ok",
              response_bodies |-> BodyInsert(response_bodies, request_id, data \o current)]

\* Contract::store_response_chunk
store_response_chunk(caller, request_id, data, append) ==
    IF ~ensure_trusted(caller) THEN Panic("Unauthorized")
    ELSE LET current == IF append /\ request_id \in DOMAIN response_bodies
                        THEN response_bodies[request_id]
                        ELSE <<>>
         IN  [outcome |-> "Ok",
              response_bodies |-> BodyInsert(response_bodies, request_id, current \o data)]

\* on_fetch_complete as it would be with stored_body in both results
on_fetch_complete_timeout_body(request_id, promise_result) ==
    IF request_id \notin MapKeys(requests)
    THEN Panic("MissingRequest")
    ELSE LET request == MapGet(requests, request_id)
             stored_body == BodyGet(response_bodies, request_id)
         IN  [outcome |-> "Ok",
              requests |-> MapRemove(requests, request_id),
              response_bodies |-> BodyRemove(response_bodies, request_id),
              stored_body |-> stored_body,
              result |->
                [request_id |-> request_id, url |-> request.url,
                 status |-> IF promise_result = "Successful"
                            THEN "Completed" ELSE "TimedOut",
                 body |-> stored_body,
                 context |-> request.context, caller |-> request.caller]]

\* on_fetch_complete as it would be if it read the request and left it in
\* the registry
on_fetch_complete_keeps_request(request_id, promise_result) ==
    IF request_id \notin MapKeys(requests)
    THEN Panic("MissingRequest")
    ELSE LET request == MapGet(requests, request_id)
             stored_body == BodyGet(response_bodies, request_id)
         IN  [outcome |-> "Ok",
              requests |-> requests,
              response_bodies |-> BodyRemove(response_bodies, request_id),
              stored_body |-> stored_body,
              result |->
                IF promise_result = "Successful"
                THEN [request_id |-> request_id, url |-> request.url,
                      status |-> "Completed", body |-> stored_body,
                      context |-> request.context, caller |-> request.caller]
                ELSE [request_id |-> request_id, url |-> request.url,
                      status |-> "TimedOut", body |-> None,
                      context |-> request.context, caller |-> request.caller]]

\* Contract::on_fetch_complete, promise_result being env::promise_result(0)
on_fetch_complete(request_id, promise_result) ==
    IF request_id \notin MapKeys(requests)
    THEN Panic("MissingRequest")
    ELSE LET request == MapGet(requests, request_id)
             stored_body == BodyGet(response_bodies, request_id)
         IN  [outcome |-> "Ok",
              requests |-> MapRemove(requests, request_id),
              response_bodies |-> BodyRemove(response_bodies, request_id),
              stored_body |-> stored_body,
              result |->
                IF promise_result = "Successful"
                THEN [request_id |-> request_id, url |-> request.url,
                      status |-> "Completed", body |-> stored_body,
                      context |-> request.context, caller |-> request.caller]
                ELSE [request_id |-> request_id, url |-> request.url,
                      status |-> "TimedOut", body |-> None,
                      context |-> request.context, caller |-> request.caller]]

(***************************************************************************)
(* The host's yield/resume primitive.  A yielded promise waits until it is *)
(* resumed or times out, whichever is first; then its callback runs, once. *)
(***************************************************************************)
\* env::promise_yield_create: a promise bound to on_fetch_complete({request_id})
promise_yield_create(y, yield_id, request_id) ==
    [x \in (DOMAIN y) \cup {yield_id} |->
        IF x = yield_id
        THEN [request_id |-> request_id, status |-> "waiting"]
        ELSE y[x]]

\* env::promise_yield_resume: resumes a promise that still waits; for any other
\* it does nothing and returns false, which respond does not read
promise_yield_resume(y, yield_id) ==
    IF yield_id \in DOMAIN y /\ y[yield_id].status = "waiting"
    THEN [y EXCEPT ![yield_id].status = "resumed"]
    ELSE y

\* The last call: the method, how it ended, and its body: for a respond that
\* went through the body argument, for on_fetch_complete the stored_body it
\* took out of response_bodies.
Call(op, outcome, body) ==
    [op |-> op, outcome |-> outcome, body |-> body]

(***************************************************************************)
(* The calls.  Each call is an operator from the current state to the      *)
(* state it leaves, given as a record of the variables; a call that panics *)
(* leaves everything as it was but the record of the last call.            *)
(***************************************************************************)
Current ==
    [trusted_relayer |-> trusted_relayer,
     next_request_id |-> next_request_id,
     requests |-> requests,
     response_bodies |-> response_bodies,
     yields |-> yields,
     results |-> results,
     finalized |-> finalized,
     inline |-> inline,
     workers |-> workers,
     last |-> last,
     steps |-> steps]

Reverted(op, outcome) == [Current EXCEPT !.last = Call(op, outcome, None)]

FetchCall(caller, url, context) ==
    LET r == fetch(caller, url, context)
    IN  IF r.outcome = "Ok"
        THEN [Current EXCEPT
                !.next_request_id = r.next_request_id,
                !.requests = r.requests,
                !.yields = promise_yield_create(yields, r.yield_id, r.request_id),
                !.last = Call("fetch", "Ok", None),
                !.steps = steps + 1]
        ELSE Reverted("fetch", r.outcome)

\* respond; finalized keeps the bytes staged for the id at the moment the
\* call resumed the waiting promise
RespondCall(caller, request_id, yield_id, body) ==
    LET r == respond(caller, request_id, yield_id, body)
    IN  IF r.outcome = "Ok"
        THEN [Current EXCEPT
                !.response_bodies = r.response_bodies,
                !.yields = IF r.resume = {}
                           THEN yields
                           ELSE promise_yield_resume(yields, CHOOSE y \in r.resume : TRUE),
                !.finalized =
                    IF \E y \in r.resume : y \in DOMAIN yields /\ yields[y].status = "waiting"
                    THEN BodyInsert(finalized, request_id,
                                    BodyGet(r.response_bodies, request_id).val)
                    ELSE finalized,
                !.inline =
                    IF /\ body.some
                       /\ \E y \in r.resume : y \in DOMAIN yields /\ yields[y].status = "waiting"
                    THEN BodyInsert(inline, request_id, body.val)
                    ELSE inline,
                !.last = Call("respond", "Ok", body),
                !.steps = steps + 1]
        ELSE Reverted("respond", r.outcome)

StoreResponseChunkCall(caller, request_id, data, append) ==
    LET r == store_response_chunk(caller, request_id, data, append)
    IN  IF r.outcome = "Ok"
        THEN [Current EXCEPT
                !.response_bodies = r.response_bodies,
                !.last = Call("store_response_chunk", "Ok", None),
                !.steps = steps + 1]
        ELSE Reverted("store_response_chunk", r.outcome)

\* The host runs the callback of the promise yield_id, which is then spent.
Settle(yield_id, promise_result) ==
    LET request_id == yields[yield_id].request_id
        r == on_fetch_complete(request_id, promise_result)
        spent == [yields EXCEPT ![yield_id].status =
                     IF promise_result = "Successful" THEN "completed" ELSE "timed_out"]
    IN  IF r.outcome = "Ok"
        THEN [Current EXCEPT
                !.requests = r.requests,
                !.response_bodies = r.response_bodies,
                !.results = Append(results, r.result),
                !.yields = spent,
                !.finalized = BodyRemove(finalized, request_id),
                !.inline = BodyRemove(inline, request_id),
                !.last = Call("on_fetch_complete", r.result.status, r.stored_body)]
        ELSE [Current EXCEPT
                !.yields = spent,
                !.finalized = BodyRemove(finalized, request_id),
                !.inline = BodyRemove(inline, request_id),
                !.last = Call("on_fetch_complete", r.outcome, None)]

(***************************************************************************)
(* The relay worker (src/relayer/src/lib.rs).  Every submission is a       *)
(* transaction signed as the trusted relayer; a transaction is one receipt *)
(* whose actions run in order and commit together or not at all.           *)
(***************************************************************************)
\* body.len().div_ceil(CHUNK_SIZE)
div_ceil(n, d) == (n + d - 1) \div d

\* the k-th element of body.chunks(CHUNK_SIZE)
chunks(body, k) ==
    SubSeq(body, (k - 1) * CHUNK_SIZE + 1,
           IF k * CHUNK_SIZE < Len(body) THEN k * CHUNK_SIZE ELSE Len(body))

\* send_batch_chunk_and_respond as it would be with the two calls sent as two
\* transactions: the chunk stays when the respond fails
send_batch_chunk_and_respond_two_txs(request_id, yield_id, data) ==
    LET s == store_response_chunk(RelayerAccount, request_id, data, FALSE)
        r == respond_after(s.response_bodies, RelayerAccount, request_id, yield_id, None)
    IN  IF r.outcome # "Ok"
        THEN [Current EXCEPT
                !.response_bodies = s.response_bodies,
                !.last = Call("batch", r.outcome, None),
                !.steps = steps + 1]
        ELSE [Current EXCEPT
                !.response_bodies = r.response_bodies,
                !.yields = promise_yield_resume(yields, CHOOSE y \in r.resume : TRUE),
                !.finalized =
                    IF \E y \in r.resume : yields[y].status = "waiting"
                    THEN BodyInsert(finalized, request_id, r.response_bodies[request_id])
                    ELSE finalized,
                !.last = Call("batch", "Ok", None),
                !.steps = steps + 1]

\* send_batch_chunk_and_respond: one transaction with the actions
\* store_response_chunk(request_id, data, false) and respond(request_id,
\* yield_id, null)
send_batch_chunk_and_respond(request_id, yield_id, data) ==
    LET s == store_response_chunk(RelayerAccount, request_id, data, FALSE)
    IN  IF s.outcome # "Ok"
        THEN Reverted("batch", s.outcome)
        ELSE LET r == respond_after(s.response_bodies, RelayerAccount,
                                    request_id, yield_id, None)
             IN  IF r.outcome # "Ok"
                 THEN Reverted("batch", r.outcome)
                 ELSE [Current EXCEPT
                         !.response_bodies = r.response_bodies,
                         !.yields = promise_yield_resume(yields, CHOOSE y \in r.resume : TRUE),
                         !.finalized =
                             IF \E y \in r.resume : yields[y].status = "waiting"
                             THEN BodyInsert(finalized, request_id,
                                             r.response_bodies[request_id])
                             ELSE finalized,
                         !.last = Call("batch", "Ok", None),
                         !.steps = steps + 1]

\* process_once, up to the loop: the snapshot of list_requests; with an empty
\* one the cycle is over (Ok(false)) and run sleeps
process_once(w) ==
    [Current EXCEPT
        !.workers[w] = [@ EXCEPT !.pc = IF list_requests = <<>> THEN "sleep" ELSE "get",
                                 !.pending = list_requests,
                                 !.bytes = <<>>,
                                 !.sent = 0,
                                 !.left = <<>>]]

\* handle_request, the GET of the request's url, answered with bytes
http_get(w, bytes) ==
    [Current EXCEPT
        !.workers[w] = [@ EXCEPT !.pc = "send", !.bytes = bytes, !.sent = 0]]

\* History of a cycle that fails: the ids of the requests the loop of
\* process_once did not get to, and the id of the request in hand if the
\* cycle fails in the middle of its first upload, chunks staged and the
\* respond not through.  failed holds the ids of the requests in hand when
\* a cycle failed.
Unprocessed(w) ==
    [i \in 1 .. (Len(workers[w].pending) - 1) |-> workers[w].pending[i + 1].request_id]

Interrupted(w) ==
    IF /\ workers[w].pc = "send"
       /\ workers[w].sent > 0
       /\ Head(workers[w].pending).request_id \notin workers[w].resolved
    THEN {Head(workers[w].pending).request_id}
    ELSE {}

\* run as it would be with `process_once(&config, &http).await?` in the loop:
\* the first cycle error ends run
cycle_error_exits(w) ==
    [workers[w] EXCEPT !.pc = "exit", !.pending = <<>>, !.bytes = <<>>, !.sent = 0,
                       !.left = Unprocessed(w),
                       !.restarted = @ \cup Interrupted(w),
                       !.failed = @ \cup {Head(workers[w].pending).request_id}]

\* The `?` of process_once and the Err arm of run: the cycle is given up,
\* run logs the error and sleeps.
cycle_error(w) ==
    [workers[w] EXCEPT !.pc = "sleep", !.pending = <<>>, !.bytes = <<>>, !.sent = 0,
                       !.left = Unprocessed(w),
                       !.restarted = @ \cup Interrupted(w),
                       !.failed = @ \cup {Head(workers[w].pending).request_id}]

\* sleep(config.poll_interval) of run is over: the loop goes round
sleep(w) ==
    [workers[w] EXCEPT !.pc = "poll"]

\* handle_request returned Ok: the loop of process_once goes to the next
\* request of the snapshot; after the last one the cycle is over (Ok(true))
\* and run starts the next at once.
request_done(w) ==
    [workers[w] EXCEPT !.pc = IF Len(workers[w].pending) = 1 THEN "poll" ELSE "get",
                       !.pending = Tail(@),
                       !.bytes = <<>>,
                       !.sent = 0,
                       !.resolved = @ \cup {Head(workers[w].pending).request_id}]

\* handle_request, the next submission for the request in hand: the inline
\* respond of an empty body, the batch of a body of one chunk, else the next
\* chunk of store_response_chunks or, all chunks stored, the respond
handle_request(w) ==
    LET request == Head(workers[w].pending)
        bytes == workers[w].bytes
        sent == workers[w].sent
        storing == Len(bytes) > CHUNK_SIZE /\ sent < div_ceil(Len(bytes), CHUNK_SIZE)
        t == IF bytes = <<>>
             THEN RespondCall(RelayerAccount, request.request_id, request.yield_id,
                              Some(bytes))
             ELSE IF Len(bytes) <= CHUNK_SIZE
             THEN send_batch_chunk_and_respond(request.request_id, request.yield_id, bytes)
             ELSE IF storing
             THEN StoreResponseChunkCall(RelayerAccount, request.request_id,
                                         chunks(bytes, sent + 1), sent > 0)
             ELSE RespondCall(RelayerAccount, request.request_id, request.yield_id, None)
    IN  [t EXCEPT !.workers[w] =
            IF t.last.outcome # "Ok" THEN cycle_error(w)
            ELSE IF storing THEN [@ EXCEPT !.sent = sent + 1]
            ELSE request_done(w)]

(***************************************************************************)
(* Actions: one per contract call.                                         *)
(***************************************************************************)
Init ==
    /\ trusted_relayer = RelayerAccount
    /\ next_request_id = 0
    /\ requests = <<>>
    /\ response_bodies = <<>>
    /\ yields = <<>>
    /\ results = <<>>
    /\ finalized = <<>>
    /\ inline = <<>>
    /\ workers = [w \in Workers |-> Idle]
    /\ last = Call("new", "Ok", None)
    /\ steps = 0

\* The step to the state t.
Becomes(t) ==
    /\ trusted_relayer' = t.trusted_relayer
    /\ next_request_id' = t.next_request_id
    /\ requests' = t.requests
    /\ response_bodies' = t.response_bodies
    /\ yields' = t.yields
    /\ results' = t.results
    /\ finalized' = t.finalized
    /\ inline' = t.inline
    /\ workers' = t.workers
    /\ last' = t.last
    /\ steps' = t.steps

\* The step of a call of an account: one that commits needs room in the
\* budget of committed calls.
Commits(t, budget) ==
    /\ t.steps <= budget
    /\ Becomes(t)

Fetch ==
    \E f \in FetchInputs :
        /\ f.caller \in Accounts
        /\ Commits(FetchCall(f.caller, f.url, f.context), MaxSteps)

\* Any account may submit the call; the arguments of an account that is not
\* the relayer are never read, nor is the body of a call that panics before
\* it gets to it, nor more than the length of a yield id when the request id
\* is unknown.
Respond ==
    \E caller \in Accounts, request_id \in RequestIds, yield_id \in YieldIds, body \in Bodies :
        /\ caller # RelayerAccount => yield_id = ForgedYieldId /\ body = None
        /\ respond(caller, request_id, yield_id, Some(<<>>)).outcome # "Ok" => body = None
        /\ request_id \notin MapKeys(requests)
              => yield_id \in {ForgedYieldId, MalformedYieldId}
        /\ Commits(RespondCall(caller, request_id, yield_id, body), MaxSteps)

StoreResponseChunk ==
    \E caller \in Accounts, request_id \in RequestIds, data \in Chunks, append \in BOOLEAN :
        /\ caller # RelayerAccount => data = <<>> /\ ~append
        /\ Commits(StoreResponseChunkCall(caller, request_id, data, append), MaxSteps)

\* The callback of a resumed promise runs, in a receipt after respond's.
ResumeCallback ==
    \E yield_id \in DOMAIN yields :
        /\ yields[yield_id].status = "resumed"
        /\ Becomes(Settle(yield_id, "Successful"))

\* The host's timeout of a promise nobody resumed: its callback runs with a
\* failed promise result.
HostTimeout ==
    \E yield_id \in DOMAIN yields :
        /\ yields[yield_id].status = "waiting"
        /\ Becomes(Settle(yield_id, "Failed"))

Next ==
    \/ Fetch
    \/ Respond
    \/ StoreResponseChunk
    \/ ResumeCallback
    \/ HostTimeout

Spec == Init /\ [][Next]_vars

\* The same behaviours, up to MaxShortSteps committed calls.
ShortNext == Next /\ steps' <= MaxShortSteps

ShortSpec == Init /\ [][ShortNext]_vars

\* The host runs the callback of every yielded promise: of a resumed one in a
\* following block, of one nobody resumed when its timeout is reached.
FairSpec == ShortSpec /\ WF_vars(ResumeCallback) /\ WF_vars(HostTimeout)

(***************************************************************************)
(* The relay workers and the contract: accounts fetch, the workers are the *)
(* only callers of respond and store_response_chunk.                       *)
(***************************************************************************)
WorkerFetch ==
    \E f \in FetchInputs :
        /\ next_request_id < MaxWorkerFetches
        /\ Commits(FetchCall(f.caller, f.url, f.context), MaxWorkerSteps)

ProcessOnce ==
    \E w \in Workers :
        /\ workers[w].pc = "poll"
        /\ Becomes(process_once(w))

HttpGet ==
    \E w \in Workers :
        /\ workers[w].pc = "get"
        /\ \E bytes \in HttpBodies(Head(workers[w].pending).url) :
              Becomes(http_get(w, bytes))

HandleRequest ==
    \E w \in Workers :
        /\ workers[w].pc = "send"
        /\ Commits(handle_request(w), MaxWorkerSteps)

\* The GET or the submission of the transaction fails.
CycleError ==
    \E w \in Workers :
        /\ workers[w].pc \in {"get", "send"}
        /\ Becomes([Current EXCEPT !.workers[w] = cycle_error(w)])

Sleep ==
    \E w \in Workers :
        /\ workers[w].pc = "sleep"
        /\ Becomes([Current EXCEPT !.workers[w] = sleep(w)])

WorkerNext ==
    \/ WorkerFetch
    \/ ProcessOnce
    \/ HttpGet
    \/ HandleRequest
    \/ CycleError
    \/ Sleep
    \/ ResumeCallback
    \/ HostTimeout

WorkerSpec == Init /\ [][WorkerNext]_vars

(***************************************************************************)
(* One relay worker running alone, the deployment of run: the other        *)
(* instance never leaves its initial state.                                *)
(***************************************************************************)
Single == "w1"

Alone == \A w \in Workers \ {Single} : workers'[w] = workers[w]

CycleFetch ==
    \E f \in FetchInputs :
        /\ next_request_id < MaxCycleFetches
        /\ Commits(FetchCall(f.caller, f.url, f.context), MaxCycleSteps)

CycleHandleRequest ==
    /\ workers[Single].pc = "send"
    /\ Commits(handle_request(Single), MaxCycleSteps)

CycleNext ==
    \/ CycleFetch
    \/ ProcessOnce /\ Alone
    \/ HttpGet /\ Alone
    \/ CycleHandleRequest
    \/ CycleError /\ Alone
    \/ Sleep /\ Alone
    \/ ResumeCallback
    \/ HostTimeout

CycleSpec == Init /\ [][CycleNext]_vars

\* The same behaviours, up to MaxWorkerSteps committed calls and
\* MaxWorkerFetches requests.
SoloNext ==
    /\ CycleNext
    /\ steps' <= MaxWorkerSteps
    /\ next_request_id' <= MaxWorkerFetches

SoloSpec == Init /\ [][SoloNext]_vars

\* The behaviours of the one worker up to MaxShortSteps committed calls, with
\* the progress of run: its sleep returns after poll_interval, and its loop goes on to the
\* next process_once.  No call of a cycle is taken to return: the HTTP
\* client and the RPC calls are used without a timeout.
ShortSoloNext == CycleNext /\ steps' <= MaxShortSteps

FairSoloSpec ==
    /\ Init /\ [][ShortSoloNext]_vars
    /\ WF_vars(Sleep /\ ShortSoloNext)
    /\ WF_vars(ProcessOnce /\ ShortSoloNext)

(***************************************************************************)
(* The claims.                                                             *)
(***************************************************************************)
ResultsFor(request_id) == { i \in 1 .. Len(results) : results[i].request_id = request_id }

ListedIds == { list_requests[i].request_id : i \in 1 .. Len(list_requests) }

\* C1: at most one FetchResult is ever produced for a request id, whatever
\* the interleaving of fetch, store_response_chunk, respond (repeated or
\* not) and the host timeout.
C1_AtMostOneResult ==
    \A i, j \in 1 .. Len(results) :
        results[i].request_id = results[j].request_id => i = j

\* Two requests have been settled, one result each, and a respond sent again
\* for a settled id has just been turned down.
C1_Witness ==
    /\ Len(results) = 2
    /\ last.op = "respond"
    /\ last.outcome = "NotFound"

\* C2: the result of a request resolved by a successful respond is Completed
\* and carries the bytes finalized at resolve time, whatever the relayer
\* calls for that id afterwards.
C2_BodyFinalizedAtResolve ==
    [][\A request_id \in DOMAIN finalized :
          (/\ Len(results') = Len(results) + 1
           /\ results'[Len(results')].request_id = request_id)
          => /\ results'[Len(results')].status = "Completed"
             /\ results'[Len(results')].body = Some(finalized[request_id])]_vars

\* A request counts as resolved from the respond that resumed its promise.
Resolved(request_id) ==
    \/ request_id \in DOMAIN finalized
    \/ \E i \in ResultsFor(request_id) : results[i].status = "Completed"

\* C3: in every state after a successful respond for an id, list_requests
\* does not include the id.
C3_ResolvedNotListed ==
    \A request_id \in RequestIds : Resolved(request_id) => request_id \notin ListedIds

\* C4: a request whose host timeout fired before any successful respond has
\* exactly one FetchResult, with status TimedOut and body None (also when
\* bytes were staged for it), and is absent from list_requests.
C4_TimeoutDeliversTimedOut ==
    \A y \in DOMAIN yields :
        yields[y].status = "timed_out" =>
            LET request_id == yields[y].request_id
            IN  /\ Cardinality(ResultsFor(request_id)) = 1
                /\ \A i \in ResultsFor(request_id) :
                      /\ results[i].status = "TimedOut"
                      /\ results[i].body = None
                /\ request_id \notin ListedIds

\* The timeout's callback has just run for a request with staged bytes.
C4_Witness ==
    /\ last.op = "on_fetch_complete"
    /\ last.outcome = "TimedOut"
    /\ last.body.some
    /\ last.body.val # <<>>

\* What a failed call leaves alone: everything but the record of the call.
NothingWritten(t) == [t EXCEPT !.last = last] = Current

\* C5: respond by the trusted relayer for a pending id with a yield id other
\* than the stored one fails, with or without an inline body, and leaves
\* the registry, the staged bodies and next_request_id as they were.
C5_TokenMismatchRejected ==
    \A request_id \in MapKeys(requests), yield_id \in YieldIds, body \in Bodies :
        yield_id # MapGet(requests, request_id).yield_id
        => LET t == RespondCall(trusted_relayer, request_id, yield_id, body)
           IN  /\ t.last.op = "respond"
               /\ t.last.outcome \in {"TokenMismatch", "InvalidYieldId"}
               /\ t.requests = requests
               /\ t.response_bodies = response_bodies
               /\ t.next_request_id = next_request_id
               /\ NothingWritten(t)

\* A respond with a yield id that is not the pending request's has just failed.
C5_Witness ==
    /\ last.op = "respond"
    /\ last.outcome = "TokenMismatch"
    /\ requests # <<>>

\* The requests in the order fetch created them: the n-th yielded promise
\* carries the request id of the n-th fetch.
Created == { n \in 0 .. U64Max : YieldId(n) \in DOMAIN yields }

\* C6: the request ids handed out by fetch start at 0 and are strictly
\* increasing in creation order, so no id is ever given to two requests,
\* also after earlier requests were removed by completion or timeout.
C6_IdsStrictlyIncreasing ==
    /\ \A n \in Created : n = 0 => yields[YieldId(n)].request_id = 0
    /\ \A a, b \in Created :
          a < b => yields[YieldId(a)].request_id < yields[YieldId(b)].request_id
    /\ \A k \in MapKeys(requests) : k < next_request_id

\* A fetch has just created a request after an earlier one was settled.
C6_Witness ==
    /\ last.op = "fetch"
    /\ last.outcome = "Ok"
    /\ Len(results) >= 1
    /\ Cardinality(Created) = 2

\* C7: store_response_chunk(id, data, append) by the trusted relayer makes
\* the staged bytes of id exactly data when append is false, previous ++ data
\* when append is true (previous being empty if nothing was staged), and
\* leaves the staged bytes of every other id as they were.
C7_StoreChunk ==
    \A request_id \in RequestIds, data \in Chunks, append \in BOOLEAN :
        LET t == StoreResponseChunkCall(trusted_relayer, request_id, data, append)
            previous == IF request_id \in DOMAIN response_bodies
                        THEN response_bodies[request_id]
                        ELSE <<>>
        IN  /\ t.last = Call("store_response_chunk", "Ok", None)
            /\ DOMAIN t.response_bodies = (DOMAIN response_bodies) \cup {request_id}
            /\ t.response_bodies[request_id] = IF append THEN previous \o data ELSE data
            /\ \A other \in (DOMAIN response_bodies) \ {request_id} :
                  t.response_bodies[other] = response_bodies[other]

\* A chunk has just been appended to a staged chunk, with bytes staged for
\* another id too.
C7_Witness ==
    /\ last.op = "store_response_chunk"
    /\ last.outcome = "Ok"
    /\ \E a, b \in DOMAIN response_bodies :
          /\ a # b
          /\ response_bodies[a] = <<1, 2>>
          /\ response_bodies[b] # <<>>

\* C8: respond(id, token, None) by the trusted relayer with the matching
\* token, for a pending request with nothing staged, fails with NoBody; the
\* request stays pending with its url, caller, context and token, and no
\* staged body is created.
C8_NoBodyRejected ==
    \A request_id \in MapKeys(requests) :
        request_id \notin DOMAIN response_bodies
        => LET t == RespondCall(trusted_relayer, request_id,
                                MapGet(requests, request_id).yield_id, None)
           IN  /\ t.last.op = "respond"
               /\ t.last.outcome = "NoBody"
               /\ request_id \in MapKeys(t.requests)
               /\ MapGet(t.requests, request_id) = MapGet(requests, request_id)
               /\ request_id \notin DOMAIN t.response_bodies
               /\ NothingWritten(t)

\* A respond without body has just failed with NoBody while the only staged
\* bytes are another id's.
C8_Witness ==
    /\ last.op = "respond"
    /\ last.outcome = "NoBody"
    /\ \E request_id \in MapKeys(requests) : request_id \notin DOMAIN response_bodies
    /\ response_bodies # <<>>

\* C9 as claimed: respond with no inline body fails with NoBody when the
\* staged bytes of the id exist but have length zero.
C9_EmptyStagedRejected ==
    \A request_id \in MapKeys(requests) :
        (request_id \in DOMAIN response_bodies /\ response_bodies[request_id] = <<>>)
        => RespondCall(trusted_relayer, request_id,
                       MapGet(requests, request_id).yield_id, None).last.outcome = "NoBody"

\* C9 as amended: respond with no inline body (trusted relayer, matching
\* token, pending id) succeeds exactly when a staged body exists for the id,
\* of any length, zero included; otherwise it fails with NoBody.
C9_StagedBodyRequired ==
    \A request_id \in MapKeys(requests) :
        LET t == RespondCall(trusted_relayer, request_id,
                             MapGet(requests, request_id).yield_id, None)
        IN  /\ t.last.op = "respond"
            /\ (request_id \in DOMAIN response_bodies) => t.last.outcome = "Ok"
            /\ (request_id \notin DOMAIN response_bodies) => t.last.outcome = "NoBody"

\* A respond without body has just resumed a request whose staged body has
\* length zero.
C9_Witness ==
    /\ last.op = "respond"
    /\ last.outcome = "Ok"
    /\ ~last.body.some
    /\ \E request_id \in DOMAIN finalized :
          /\ finalized[request_id] = <<>>
          /\ response_bodies[request_id] = <<>>

\* C10: respond by the trusted relayer, with a 32-byte yield id, for an id
\* that has no PendingRequest (never created, completed or timed out) fails
\* with NotFound and changes no state, with or without an inline body.
C10_UnknownIdNotFound ==
    \A request_id \in RequestIds \ MapKeys(requests),
       yield_id \in YieldIds \ {MalformedYieldId}, body \in Bodies :
        LET t == RespondCall(trusted_relayer, request_id, yield_id, body)
        IN  /\ t.last.op = "respond"
            /\ t.last.outcome = "NotFound"
            /\ NothingWritten(t)

\* A respond has just failed with NotFound while one id is settled and
\* another was never created.
C10_Witness ==
    /\ last.op = "respond"
    /\ last.outcome = "NotFound"
    /\ \E y \in DOMAIN yields : yields[y].status \in {"completed", "timed_out"}
    /\ next_request_id < U64Max
    /\ requests = <<>>

\* C11: respond and store_response_chunk by any account other than the
\* trusted relayer fail with Unauthorized, whatever the arguments, and write
\* nothing; fetch is turned down for no caller (it fails only on overflow).
C11_UntrustedRejected ==
    /\ \A caller \in Accounts \ {trusted_relayer} :
          /\ \A request_id \in RequestIds, yield_id \in YieldIds, body \in Bodies :
                LET t == RespondCall(caller, request_id, yield_id, body)
                IN  /\ t.last = Call("respond", "Unauthorized", None)
                    /\ NothingWritten(t)
          /\ \A request_id \in RequestIds, data \in Chunks, append \in BOOLEAN :
                LET t == StoreResponseChunkCall(caller, request_id, data, append)
                IN  /\ t.last = Call("store_response_chunk", "Unauthorized", None)
                    /\ NothingWritten(t)
    /\ \A caller \in Accounts, f \in FetchInputs :
          LET t == FetchCall(caller, f.url, f.context)
          IN  IF next_request_id < U64Max
              THEN /\ t.last.outcome = "Ok"
                   /\ MapGet(t.requests, next_request_id).caller = caller
              ELSE t.last.outcome = "Overflow"

\* A call of an account that is not the relayer has just been turned down,
\* while a request that account created by fetch is pending.
C11_Witness ==
    /\ last.op \in {"respond", "store_response_chunk"}
    /\ last.outcome = "Unauthorized"
    /\ \E i \in 1 .. Len(list_requests) : list_requests[i].caller # trusted_relayer

\* C12: the Completed result of a request whose respond carried an inline
\* body has that inline body, whatever bytes were staged before.
C12_InlineBodyDelivered ==
    [][\A request_id \in DOMAIN inline :
          (/\ Len(results') = Len(results) + 1
           /\ results'[Len(results')].request_id = request_id
           /\ results'[Len(results')].status = "Completed")
          => results'[Len(results')].body = Some(inline[request_id])]_vars

\* C13: list_requests returns the pending requests by ascending request id.
C13_ListAscending ==
    \A i, j \in 1 .. Len(list_requests) :
        i < j => list_requests[i].request_id < list_requests[j].request_id

\* C14: a staged body exists for an id only if a pending request for the id
\* exists.
C14_StagedOnlyWhilePending ==
    DOMAIN response_bodies \subseteq MapKeys(requests)

\* C15: the registry holds one entry per pending id, and no step changes
\* the entry (yield id, url, caller, context) of a pending id: the id keeps
\* its one entry as it is until on_fetch_complete takes it out.
C15_EntryImmutable ==
    [][/\ \A i, j \in 1 .. Len(requests') : requests'[i].key = requests'[j].key => i = j
       /\ \A request_id \in MapKeys(requests) :
             IF request_id \in MapKeys(requests')
             THEN MapGet(requests', request_id) = MapGet(requests, request_id)
             ELSE /\ last'.op = "on_fetch_complete"
                  /\ Len(results') = Len(results) + 1
                  /\ results'[Len(results')].request_id = request_id]_vars

\* A fetch has just added a request next to a pending one whose promise a
\* respond has resumed.
C15_Witness ==
    /\ last.op = "fetch"
    /\ last.outcome = "Ok"
    /\ Len(requests) = 2
    /\ \E request_id \in DOMAIN finalized : request_id \in MapKeys(requests)

\* C19: a fetch at the last value of the counter fails with Overflow and
\* writes nothing; any other fetch leaves the counter greater by exactly 1.
C19_CheckedIncrement ==
    \A caller \in Accounts, f \in FetchInputs :
        LET t == FetchCall(caller, f.url, f.context)
        IN  IF next_request_id = U64Max
            THEN /\ t.last = Call("fetch", "Overflow", None)
                 /\ NothingWritten(t)
            ELSE /\ t.last.outcome = "Ok"
                 /\ t.next_request_id = next_request_id + 1
                 /\ t.next_request_id > next_request_id
                 /\ t.next_request_id <= U64Max

\* A fetch has just failed on the overflow of the counter.
C19_Witness ==
    /\ last.op = "fetch"
    /\ last.outcome = "Overflow"
    /\ next_request_id = U64Max

\* C16: every request fetch created is in the end taken out of the registry
\* with a FetchResult handed to its caller, whatever the relayer does or
\* fails to do.
C16_EveryFetchSettles ==
    \A request_id \in RequestIds :
        (request_id \in MapKeys(requests))
            ~> (request_id \notin MapKeys(requests) /\ ResultsFor(request_id) # {})

\* A request was settled by the timeout without any call for it having
\* committed: the fetch is the only call that did.
C16_Witness ==
    /\ last.op = "on_fetch_complete"
    /\ last.outcome = "TimedOut"
    /\ steps = 1
    /\ Len(results) = 1
    /\ requests = <<>>

\* C17: of two workers handling the same request at most one has its respond
\* go through; the other worker's is turned down.
C17_OneRespondSucceeds ==
    \A a, b \in Workers :
        a # b => workers[a].resolved \cap workers[b].resolved = {}

\* C18: the body of a Completed result is a body the server answers the GET
\* of the request's url with, whatever the interleaving of the workers'
\* store_response_chunk and respond submissions.
C18_CompletedBodyIsFetchedBody ==
    \A i \in 1 .. Len(results) :
        results[i].status = "Completed"
        => \E bytes \in HttpBodies(results[i].url) : results[i].body = Some(bytes)

\* What a submission that failed leaves alone: everything but the record of
\* the call and the worker's own place.
NothingCommitted(t) == [t EXCEPT !.last = last, !.workers = workers] = Current

\* The batch took effect: the request is pending with its yield resumed and
\* data staged for it.
BothCommitted(t, request_id, data) ==
    /\ t.last = Call("batch", "Ok", None)
    /\ t.steps = steps + 1
    /\ request_id \in MapKeys(t.requests)
    /\ t.yields[MapGet(t.requests, request_id).yield_id].status = "resumed"
    /\ BodyGet(t.response_bodies, request_id) = Some(data)
    /\ request_id \in DOMAIN t.finalized

\* C20: a worker holding a body of 1 to CHUNK_SIZE bytes submits the batch of
\* store_response_chunk(id, bytes, false) and respond(id, token, None), and
\* the batch, for whatever id and token, either stages the bytes and resumes
\* the request, or fails and writes nothing.
C20_BatchAtomic ==
    /\ \A w \in Workers :
          (/\ workers[w].pc = "send"
           /\ workers[w].bytes # <<>>
           /\ Len(workers[w].bytes) <= CHUNK_SIZE)
          => LET request == Head(workers[w].pending)
                 t == handle_request(w)
                 b == send_batch_chunk_and_respond(request.request_id, request.yield_id,
                                                   workers[w].bytes)
             IN  /\ [t EXCEPT !.workers = workers] = b
                 /\ \/ BothCommitted(t, request.request_id, workers[w].bytes)
                    \/ /\ t.last.op = "batch"
                       /\ t.last.outcome # "Ok"
                       /\ NothingCommitted(t)
    /\ \A request_id \in RequestIds, yield_id \in YieldIds, data \in {<<1>>, <<1, 2>>} :
          LET t == send_batch_chunk_and_respond(request_id, yield_id, data)
          IN  \/ BothCommitted(t, request_id, data)
              \/ /\ t.last.op = "batch"
                 /\ t.last.outcome # "Ok"
                 /\ NothingCommitted(t)

\* A worker's batch has just failed for a request that timed out meanwhile,
\* and no bytes are staged.
C20_Witness ==
    /\ last = Call("batch", "NotFound", None)
    /\ response_bodies = <<>>
    /\ Len(results) = 1
    /\ results[1].status = "TimedOut"

\* The k-th submission of store_response_chunks for bytes: a full chunk, or
\* what is left for the last one.
ChunkExpected(bytes, k) ==
    [n \in 1 .. (IF k < div_ceil(Len(bytes), CHUNK_SIZE)
                 THEN CHUNK_SIZE
                 ELSE Len(bytes) - (k - 1) * CHUNK_SIZE) |->
        bytes[(k - 1) * CHUNK_SIZE + n]]

\* The bytes the first k chunks of bytes make up.
Uploaded(bytes, k) ==
    SubSeq(bytes, 1, IF k * CHUNK_SIZE < Len(bytes) THEN k * CHUNK_SIZE ELSE Len(bytes))

\* The server answers the GET of url only with bodies longer than a chunk.
LongBodyUrl(url) == \A bytes \in HttpBodies(url) : Len(bytes) > CHUNK_SIZE

\* The worker's step for a body longer than CHUNK_SIZE: the next chunk in
\* order, full-sized but for the last, append=false only for the first; the
\* respond without body once ceil(len/CHUNK_SIZE) chunks went through; the
\* chunks that went through for a pending request make up a prefix of the
\* body.
C21_ChunkProtocol ==
    \A w \in Workers :
        (workers[w].pc = "send" /\ Len(workers[w].bytes) > CHUNK_SIZE)
        => LET request == Head(workers[w].pending)
               bytes == workers[w].bytes
               sent == workers[w].sent
               total_chunks == div_ceil(Len(bytes), CHUNK_SIZE)
               t == [handle_request(w) EXCEPT !.workers = workers]
           IN  /\ sent <= total_chunks
               /\ total_chunks * CHUNK_SIZE >= Len(bytes)
               /\ (total_chunks - 1) * CHUNK_SIZE < Len(bytes)
               /\ IF sent < total_chunks
                  THEN /\ chunks(bytes, sent + 1) = ChunkExpected(bytes, sent + 1)
                       /\ t = StoreResponseChunkCall(RelayerAccount, request.request_id,
                                                     ChunkExpected(bytes, sent + 1), sent # 0)
                  ELSE t = RespondCall(RelayerAccount, request.request_id,
                                       request.yield_id, None)
               /\ (w = Single /\ sent > 0 /\ request.request_id \in MapKeys(requests))
                      => BodyGet(response_bodies, request.request_id)
                            = Some(Uploaded(bytes, sent))

\* C21: a body longer than CHUNK_SIZE goes up as ceil(len/CHUNK_SIZE) chunks
\* in order, each of CHUNK_SIZE bytes but a possibly shorter last one, the
\* first with append=false and the others with append=true, then a respond
\* without body; when all of the worker's submissions for the request
\* succeeded, the Completed result carries the body byte for byte.
C21_ChunkedBodyDelivered ==
    /\ C21_ChunkProtocol
    /\ \A i \in 1 .. Len(results) :
          (/\ results[i].status = "Completed"
           /\ results[i].request_id \in workers[Single].resolved
           /\ LongBodyUrl(results[i].url))
          => \E bytes \in HttpBodies(results[i].url) : results[i].body = Some(bytes)

\* The ids of a sequence of PendingRequests.
IdsOf(pending) == [i \in 1 .. Len(pending) |-> pending[i].request_id]

\* The worker's submissions are for the first request of what is left of the
\* snapshot; one that fails ends the cycle with the rest of the snapshot
\* unprocessed, one that succeeds leaves the rest as it was or goes to the
\* next request in list order.
C22_SequentialUntilFailure ==
    \A w \in Workers :
        /\ workers[w].pc \in {"get", "send"} <=> workers[w].pending # <<>>
        /\ workers[w].pc = "poll"
              => LET t == process_once(w)
                 IN  /\ t.workers[w].pending = list_requests
                     /\ MapKeys(requests) = { IdsOf(list_requests)[i] :
                                                  i \in 1 .. Len(list_requests) }
        /\ workers[w].pc = "send"
              => LET t == handle_request(w)
                     request == Head(workers[w].pending)
                 IN  /\ \A id \in (DOMAIN t.response_bodies) \cup (DOMAIN response_bodies) :
                           id # request.request_id
                           => BodyGet(t.response_bodies, id) = BodyGet(response_bodies, id)
                     /\ \A y \in DOMAIN yields :
                           y # request.yield_id => t.yields[y] = yields[y]
                     /\ IF t.last.outcome # "Ok"
                        THEN /\ NothingCommitted(t)
                             /\ t.workers[w].pc = "sleep"
                             /\ t.workers[w].pending = <<>>
                             /\ t.workers[w].left = IdsOf(Tail(workers[w].pending))
                             /\ t.workers[w].left = Unprocessed(w)
                        ELSE t.workers[w].pending \in
                                {workers[w].pending, Tail(workers[w].pending)}

\* C22: the worker handles the requests of the snapshot one at a time in
\* list order and submits nothing more in a cycle after the first failure;
\* every request the failed cycle did not get to stays pending, for the
\* next cycle's list_requests to return it, unless the host timed it out.
C22_RestStaysPending ==
    /\ C22_SequentialUntilFailure
    /\ \A w \in Workers :
          \A i \in 1 .. Len(workers[w].left) :
              \/ workers[w].left[i] \in ListedIds
              \/ \E r \in ResultsFor(workers[w].left[i]) : results[r].status = "TimedOut"

\* A step of worker w in the loop of run: a cycle that fails or finds nothing
\* pending goes to the sleep, one that handled its last request to the next
\* cycle at once; the sleep goes to the next cycle and nowhere else; a cycle
\* starts only there, with the whole of list_requests as its snapshot.
RunStep(w) ==
    LET pc == workers[w].pc
        pc_next == workers'[w].pc
        in_cycle == {"get", "send"}
    IN  /\ pc_next \in {"poll", "get", "send", "sleep"}
        /\ (pc \in in_cycle /\ pc_next \notin in_cycle)
              => IF steps' = steps
                 THEN pc_next = "sleep"
                 ELSE pc_next = "poll" /\ Len(workers[w].pending) = 1
        /\ (pc = "sleep" /\ workers'[w] # workers[w])
              => /\ pc_next = "poll"
                 /\ workers'[w].pending = <<>>
                 /\ steps' = steps
                 /\ response_bodies' = response_bodies
        /\ (pc = "poll" /\ workers'[w] # workers[w])
              => /\ workers'[w].pending = list_requests
                 /\ pc_next = IF list_requests = <<>> THEN "sleep" ELSE "get"
                 /\ steps' = steps
        /\ (pc \in in_cycle /\ pc_next \in in_cycle)
              => workers'[w].pending \in {workers[w].pending, Tail(workers[w].pending)}
        /\ pc_next = "get" => pc \in {"poll", "get", "send"}
        /\ (pc_next = "poll" /\ pc # "poll") => pc \in {"sleep", "send"}

C24_SecondSettleIsNoOp ==
    \A yield_id \in DOMAIN yields, promise_result \in {"Successful", "Failed"} :
        yields[yield_id].status \in {"completed", "timed_out"}
        => LET t == Settle(yield_id, promise_result)
           IN  /\ t.last.op = "on_fetch_complete"
               /\ t.last.outcome # "MissingRequest"
               /\ t.results = results
               /\ t.requests = requests
               /\ t.response_bodies = response_bodies

\* C25: every Completed result has a body that is present, empty or not: a
\* request whose promise a respond resumed is pending with bytes staged for
\* it until its callback takes them out, also when the respond carried an
\* empty inline body.
C25_CompletedBodyPresent ==
    /\ \A i \in 1 .. Len(results) :
          results[i].status = "Completed" => results[i].body.some
    /\ \A yield_id \in DOMAIN yields :
          yields[yield_id].status = "resumed"
          => /\ yields[yield_id].request_id \in MapKeys(requests)
             /\ BodyGet(response_bodies, yields[yield_id].request_id).some
    /\ \A request_id \in DOMAIN inline :
          BodyGet(response_bodies, request_id).some
    /\ (last.op = "on_fetch_complete" /\ last.outcome = "Completed") => last.body.some

\* The callback has just delivered Completed with a present empty body,
\* after nothing but the fetch and a respond with an empty inline body.
C25_Witness ==
    /\ last = Call("on_fetch_complete", "Completed", Some(<<>>))
    /\ steps = 2
    /\ next_request_id = 1
    /\ Len(results) = 1
    /\ results[1].body = Some(<<>>)

\* C26: a chunked upload that a cycle left unfinished (a prefix of the
\* chunks staged, or all of them without the respond) is started over by the
\* next cycle with append=false, which discards what was left; once a cycle
\* gets through, the bytes staged at its respond and the body of the
\* Completed result are the full body, nothing of the leftover in front.
C26_RestartedUploadDelivered ==
    /\ \A w \in Workers :
          (/\ workers[w].pc = "send"
           /\ workers[w].sent = 0
           /\ Len(workers[w].bytes) > CHUNK_SIZE
           /\ Head(workers[w].pending).request_id \in workers[w].restarted)
          => LET t == handle_request(w)
                 request == Head(workers[w].pending)
             IN  /\ t.last = Call("store_response_chunk", "Ok", None)
                 /\ BodyGet(t.response_bodies, request.request_id)
                       = Some(Uploaded(workers[w].bytes, 1))
    /\ \A request_id \in workers[Single].restarted \cap DOMAIN finalized :
          \E bytes \in HttpBodies(MapGet(requests, request_id).url) :
              finalized[request_id] = bytes
    /\ \A i \in 1 .. Len(results) :
          (/\ results[i].status = "Completed"
           /\ results[i].request_id \in workers[Single].restarted
           /\ results[i].request_id \in workers[Single].resolved)
          => \E bytes \in HttpBodies(results[i].url) : results[i].body = Some(bytes)

\* A request the worker has failed on in every cycle that got to it.
AlwaysFailing(request_id) ==
    /\ request_id \in workers[Single].failed
    /\ request_id \notin workers[Single].resolved

\* C27: while a pending request whose processing fails in every cycle stays
\* in the registry, the worker submits nothing for the requests listed
\* after it, those created after it, and none of them ends as Completed.
C27_HeadOfLineBlocking ==
    /\ \A w \in Workers :
          workers[w].pc = "send"
          => LET t == handle_request(w)
             IN  \A i \in 2 .. Len(workers[w].pending) :
                    LET later == workers[w].pending[i]
                    IN  later.request_id # Head(workers[w].pending).request_id
                        => /\ BodyGet(t.response_bodies, later.request_id)
                                = BodyGet(response_bodies, later.request_id)
                           /\ t.yields[later.yield_id] = yields[later.yield_id]
    /\ \A i \in 1 .. Len(results) :
          results[i].status = "Completed"
          => ~\E request_id \in MapKeys(requests) :
                 /\ request_id < results[i].request_id
                 /\ AlwaysFailing(request_id)

====
